---- MODULE Spec2Model ----
(***************************************************************************)
(* NeverForgetVPS: the VPSMonitor orchestrator (package neverforgetvps,    *)
(* carried in src/README.md from line 30 on) and the two providers it      *)
(* composes (src/provider/vdsina, src/provider/oneprovider).               *)
(*                                                                         *)
(* Time is counted in whole hours since an arbitrary epoch; a calendar day *)
(* is the hour count divided by 24.  A date string "2006-01-02" is the day *)
(* number.                                                                 *)
(***************************************************************************)
EXTENDS Integers, Sequences, FiniteSets, TLC

VARIABLES
    constructed,   \* "none" | "ok" | "panic": outcome of NewVPSMonitor
    args,          \* the arguments NewVPSMonitor was called with
    panicMsg,      \* the panic value when a panic happened, "" otherwise
    m,             \* the VPSMonitor struct
    parentDone,    \* the caller's context is cancelled
    ctxDone,       \* m.ctx is cancelled
    messageChan,   \* the caller's buffered channel, oldest message first
    chanTag,       \* for each buffered message: <<cycle, index>> of the send that put it
    loop,          \* the runPaymentDateCheck goroutine
    stopMark,      \* the first Stop made after Start: the cycle count it met
    now,           \* the wall clock, in hours
    localDay,      \* hours from the same wall-clock time of the day before, in
                   \* the process's time zone, to now
    fmtIn,         \* arguments of a direct formatPaymentMessage call
    fmtOut,        \* its result
    provIn,        \* provider and upstream answer of a direct GetNextPaymentDate call
    provOut        \* its result and the notification checkPaymentDates makes of it

vars == <<constructed, args, panicMsg, m, parentDone, ctxDone, messageChan,
          chanTag, loop, stopMark, now, localDay, fmtIn, fmtOut, provIn, provOut>>

(***************************************************************************)
(* Bounds of the model.                                                    *)
(***************************************************************************)
ChanCap == 2        \* capacity of the caller's channel
MaxCycles == 3      \* cycles one loop may begin before its ticker goes quiet

(***************************************************************************)
(* Program constants.                                                      *)
(***************************************************************************)
DefaultCheckInterval == 12
HoursPerDay == 24
PageLimit == 20     \* limit := 20 in OneProvider.GetNextPaymentDate

(***************************************************************************)
(* Go's integer conversion of a float64 truncates toward zero.             *)
(***************************************************************************)
TruncDiv(a, b) == IF a >= 0 THEN a \div b ELSE -((-a) \div b)

Abs(a) == IF a < 0 THEN -a ELSE a

(***************************************************************************)
(* Notification texts.  kind is the template, count the number printed in  *)
(* it, day the printed date, err the %v of the error.                      *)
(***************************************************************************)
Text(kind, name, day, count, err) ==
    [kind |-> kind, provider |-> name, day |-> day, count |-> count, err |-> err]

ErrorText(name, err) == Text("Error", name, 0, 0, err)

NoPaymentText(name) == Text("NoPayment", name, 0, 0, "")

DateStr(paymentDate) == paymentDate \div HoursPerDay

daysUntilOf(paymentDate, nowUTC) == TruncDiv(paymentDate - nowUTC, HoursPerDay)

formatPaymentMessageLate(providerName, paymentDate, nowUTC) ==
    LET daysUntil == daysUntilOf(paymentDate, nowUTC)
        dateStr == DateStr(paymentDate)
    IN  CASE daysUntil < 0 -> Text("CRITICAL", providerName, dateStr, -daysUntil, "")
          [] daysUntil <= 3 -> Text("WARNING", providerName, dateStr, daysUntil, "")
          [] daysUntil <= 5 -> Text("ATTENTION", providerName, dateStr, daysUntil, "")
          [] OTHER -> Text("INFO", providerName, dateStr, daysUntil, "")

formatPaymentMessage(providerName, paymentDate, nowUTC) ==
    LET daysUntil == daysUntilOf(paymentDate, nowUTC)
        dateStr == DateStr(paymentDate)
    IN  CASE daysUntil < 0 -> Text("CRITICAL", providerName, dateStr, -daysUntil, "")
          [] daysUntil <= 2 -> Text("WARNING", providerName, dateStr, daysUntil, "")
          [] daysUntil <= 5 -> Text("ATTENTION", providerName, dateStr, daysUntil, "")
          [] OTHER -> Text("INFO", providerName, dateStr, daysUntil, "")

(***************************************************************************)
(* The caller's converter, as in example/main.go: the text becomes the     *)
(* Text field of a MessageToSend, the other fields keep their zero value.  *)
(***************************************************************************)
messageConverter(text) == [Receiver |-> 0, Text |-> text, Mode |-> ""]

(***************************************************************************)
(* Providers.  A result of GetNextPaymentDate is a pair (date, err): err   *)
(* is "" for a nil error, isNil says that the *time.Time is nil (date is   *)
(* then 0 and unused).                                                     *)
(***************************************************************************)
DateResult(date) == [isNil |-> FALSE, date |-> date, err |-> ""]
NilResult == [isNil |-> TRUE, date |-> 0, err |-> ""]
ErrResult(err) == [isNil |-> TRUE, date |-> 0, err |-> err]

\* A date field of an upstream JSON document.
Field(tag, day) == [tag |-> tag, day |-> day]
NullField == Field("null", 0)
EmptyField == Field("empty", 0)
BadField == Field("bad", 0)
DayField(d) == Field("date", d)

\* time.Parse("2006-01-02", s): midnight UTC of the day, or an error.
ParseOK(f) == f.tag = "date"
ParseDate(f) == f.day * HoursPerDay

VdsinaName == "vdsina"
OneProviderName == "oneprovider"

\* time.Now().AddDate(0, 0, -1): the same wall-clock time on the day before,
\* in the zone of time.Now(), which is the local one.  dayLen is the length
\* of that local day: 24 hours, 23 or 25 across a change of the zone's
\* offset.
AddDateYesterday(nowLocal, dayLen) == nowLocal - dayLen

\* fetchAccount: resp.ok is FALSE for a transport, status, JSON or API error.
VdsinaGetNextPaymentDate(resp, nowLocal, dayLen) ==
    IF ~resp.ok THEN ErrResult("failed to fetch account")
    ELSE IF resp.forecast.tag \in {"null", "empty"}
         THEN DateResult(AddDateYesterday(nowLocal, dayLen))
    ELSE IF ~ParseOK(resp.forecast)
         THEN ErrResult("failed to parse forecast date")
    ELSE DateResult(ParseDate(resp.forecast))

RECURSIVE EarliestFrom(_, _, _)
\* The range loop over the invoices from index k on; earliest is the
\* earliestDate so far, a result with a nil or a set date.
EarliestFrom(invoices, k, earliest) ==
    IF k > Len(invoices) THEN earliest
    ELSE LET inv == invoices[k] IN
         IF inv.Status = "Unpaid" /\ inv.DueDate.tag # "empty"
         THEN IF ~ParseOK(inv.DueDate)
              THEN ErrResult("failed to parse due date")
              ELSE LET dueDate == ParseDate(inv.DueDate) IN
                   IF earliest.isNil \/ dueDate < earliest.date
                   THEN EarliestFrom(invoices, k + 1, DateResult(dueDate))
                   ELSE EarliestFrom(invoices, k + 1, earliest)
         ELSE EarliestFrom(invoices, k + 1, earliest)

\* fetchinvoicesPage(ctx, page, limit): resp.invoices is the list upstream
\* pages through for status=Unpaid; the answer holds the limit entries of
\* the page asked for.
fetchinvoicesPage(resp, page, limit) ==
    LET first == (page - 1) * limit + 1
        last == IF page * limit < Len(resp.invoices) THEN page * limit
                ELSE Len(resp.invoices)
    IN  SubSeq(resp.invoices, first, last)

OneProviderGetNextPaymentDateStrict(resp) ==
    IF ~resp.ok THEN ErrResult("failed to fetch invoices")
    ELSE LET invoices == fetchinvoicesPage(resp, 1, PageLimit) IN
         IF Len(invoices) = 0 THEN ErrResult("no invoices")
         ELSE EarliestFrom(invoices, 1, ErrResult("no invoices"))

\* page := 1, limit := 20: one call of fetchinvoicesPage, then the scan.  The
\* total number of pages the answer carries is dropped.
OneProviderGetNextPaymentDate(resp) ==
    IF ~resp.ok THEN ErrResult("failed to fetch invoices")
    ELSE LET invoices == fetchinvoicesPage(resp, 1, PageLimit) IN
         IF Len(invoices) = 0 THEN NilResult
         ELSE EarliestFrom(invoices, 1, NilResult)

GetNextPaymentDate(name, resp, nowLocal, dayLen) ==
    IF name = VdsinaName THEN VdsinaGetNextPaymentDate(resp, nowLocal, dayLen)
    ELSE OneProviderGetNextPaymentDate(resp)

\* A derived context that is already cancelled fails the request.
CanceledResult(name) ==
    IF name = VdsinaName THEN ErrResult("failed to fetch account: context canceled")
    ELSE ErrResult("failed to fetch invoices: context canceled")

(***************************************************************************)
(* Upstream answers a query can meet.  The set is the same at every query: *)
(* a transport failure, "nothing due", and a due date.                     *)
(***************************************************************************)
Today(nowUTC) == nowUTC \div HoursPerDay

VdsinaResponses(nowUTC) ==
    { [ok |-> FALSE, forecast |-> NullField],
      [ok |-> TRUE, forecast |-> NullField],
      [ok |-> TRUE, forecast |-> DayField(Today(nowUTC) + 4)] }

Invoice(status, due) == [Status |-> status, DueDate |-> due]

OneProviderResponses(nowUTC) ==
    { [ok |-> FALSE, invoices |-> << >>],
      [ok |-> TRUE, invoices |-> << >>],
      [ok |-> TRUE, invoices |-> << Invoice("Unpaid", DayField(Today(nowUTC) + 9)),
                                    Invoice("Unpaid", DayField(Today(nowUTC) + 2)) >>] }

Responses(name, nowUTC) ==
    IF name = VdsinaName THEN VdsinaResponses(nowUTC) ELSE OneProviderResponses(nowUTC)

(***************************************************************************)
(* The monitor.                                                            *)
(***************************************************************************)
NilProvider == [nil |-> TRUE, apiKey |-> "", clientKey |-> ""]

\* vdsina.New and oneprovider.New
VdsinaNew(apiKey) ==
    IF apiKey = "" THEN NilProvider
    ELSE [nil |-> FALSE, apiKey |-> apiKey, clientKey |-> ""]

OneProviderNew(apiKey, clientKey) ==
    IF apiKey = "" \/ clientKey = "" THEN NilProvider
    ELSE [nil |-> FALSE, apiKey |-> apiKey, clientKey |-> clientKey]

VdsinaIsConfigured(v) == ~v.nil /\ v.apiKey # ""

OneProviderIsConfigured(o) == ~o.nil /\ o.apiKey # "" /\ o.clientKey # ""

ZeroMonitor ==
    [Vdsina |-> NilProvider, OneProvider |-> NilProvider, checkInterval |-> 0,
     hasChan |-> FALSE, hasConv |-> FALSE, hasCancel |-> FALSE]

Keys == {"", "key"}
Intervals == {-1, 0, 6}

Configs ==
    [VdsinaAPIKey : Keys, OneProviderAPIKey : Keys, OneProviderClientKey : Keys,
     CheckInterval : Intervals]

NewVPSMonitorPanicAnyKey(config, chanNil, convNil) ==
    IF chanNil THEN "messageChan is required"
    ELSE IF convNil THEN "messageConverter is required"
    ELSE IF (config.OneProviderAPIKey = "" /\ config.OneProviderClientKey = "")
            /\ config.VdsinaAPIKey = ""
         THEN "OneProviderAPIKey and OneProviderClientKey or VdsinaAPIKey are required"
    ELSE ""

\* The panic a call of NewVPSMonitor ends with, "" when it returns.
NewVPSMonitorPanic(config, chanNil, convNil) ==
    IF chanNil THEN "messageChan is required"
    ELSE IF convNil THEN "messageConverter is required"
    ELSE IF (config.OneProviderAPIKey = "" \/ config.OneProviderClientKey = "")
            /\ config.VdsinaAPIKey = ""
         THEN "OneProviderAPIKey and OneProviderClientKey or VdsinaAPIKey are required"
    ELSE ""

checkIntervalPositive(config) ==
    IF config.CheckInterval <= 0 THEN DefaultCheckInterval ELSE config.CheckInterval

\* checkInterval := config.CheckInterval, DefaultCheckInterval when that is 0
checkIntervalOf(config) ==
    IF config.CheckInterval = 0 THEN DefaultCheckInterval ELSE config.CheckInterval

NewVPSMonitorValueUnchecked(config) ==
    [Vdsina |-> [nil |-> FALSE, apiKey |-> config.VdsinaAPIKey, clientKey |-> ""],
     OneProvider |-> [nil |-> FALSE, apiKey |-> config.OneProviderAPIKey,
                      clientKey |-> config.OneProviderClientKey],
     checkInterval |-> checkIntervalOf(config),
     hasChan |-> TRUE, hasConv |-> TRUE, hasCancel |-> TRUE]

\* The monitor a call of NewVPSMonitor returns.
NewVPSMonitorValue(config) ==
    [Vdsina |-> IF config.VdsinaAPIKey # "" THEN VdsinaNew(config.VdsinaAPIKey)
                ELSE NilProvider,
     OneProvider |-> IF config.OneProviderAPIKey # "" /\ config.OneProviderClientKey # ""
                     THEN OneProviderNew(config.OneProviderAPIKey,
                                         config.OneProviderClientKey)
                     ELSE NilProvider,
     checkInterval |-> checkIntervalOf(config),
     hasChan |-> TRUE, hasConv |-> TRUE, hasCancel |-> TRUE]

\* The local day that ends now: 24 hours, or 23 or 25 when the zone's offset
\* changed within it.
LocalDays == {HoursPerDay - 1, HoursPerDay, HoursPerDay + 1}

NoCall == [name |-> "", resp |-> [ok |-> FALSE, forecast |-> NullField]]

NoAnswer == [res |-> NilResult, text |-> Text("", "", 0, 0, "")]

NoArgs ==
    [config |-> [VdsinaAPIKey |-> "", OneProviderAPIKey |-> "",
                 OneProviderClientKey |-> "", CheckInterval |-> 0],
     chanNil |-> TRUE, convNil |-> TRUE]

\* The process runs: the constructor returned and no goroutine panicked.
Alive == constructed = "ok" /\ loop.pc # "panicked"

IdleLoop ==
    [pc |-> "unborn", providers |-> << >>, i |-> 0, q |-> "none", tick |-> FALSE,
     n |-> 0, log |-> << >>, conv |-> 0]

Init ==
    /\ constructed = "none"
    /\ args = NoArgs
    /\ panicMsg = ""
    /\ m = ZeroMonitor
    /\ parentDone = FALSE
    /\ ctxDone = FALSE
    /\ messageChan = << >>
    /\ chanTag = << >>
    /\ loop = IdleLoop
    /\ stopMark = [set |-> FALSE, n |-> 0]
    /\ now \in {100 * HoursPerDay + 7}
    /\ localDay = HoursPerDay      \* the other days: InitProv
    /\ fmtIn = [providerName |-> "", paymentDate |-> 0, nowUTC |-> 0]
    /\ fmtOut = Text("", "", 0, 0, "")
    /\ provIn = NoCall
    /\ provOut = NoAnswer

NewVPSMonitor ==
    /\ constructed = "none"
    /\ \E config \in Configs, chanNil \in BOOLEAN, convNil \in BOOLEAN :
         LET p == NewVPSMonitorPanic(config, chanNil, convNil) IN
         /\ args' = [config |-> config, chanNil |-> chanNil, convNil |-> convNil]
         /\ IF p # ""
            THEN /\ constructed' = "panic"
                 /\ panicMsg' = p
                 /\ UNCHANGED <<m, ctxDone>>
            ELSE /\ constructed' = "ok"
                 /\ m' = NewVPSMonitorValue(config)
                 /\ ctxDone' = parentDone     \* context.WithCancel(ctx)
                 /\ UNCHANGED panicMsg
    /\ UNCHANGED <<parentDone, messageChan, chanTag, loop, stopMark, now, localDay, fmtIn,
                   fmtOut, provIn, provOut>>

\* Start: go m.runPaymentDateCheck(m.checkInterval).  Start is called at most
\* once: the behaviour of a second call is left undefined.
Start ==
    /\ Alive
    /\ loop.pc = "unborn"
    /\ loop' = [loop EXCEPT !.pc = "start"]
    /\ UNCHANGED <<constructed, args, panicMsg, m, parentDone, ctxDone, messageChan,
                   chanTag, stopMark, now, localDay, fmtIn, fmtOut, provIn, provOut>>

StopToggle(mon, done) == IF mon.hasCancel THEN ~done ELSE done

\* Whether m.ctx is cancelled after the body of Stop, done telling whether
\* it was before: `if m.cancel != nil { m.cancel() }`.
StopCancel(mon, done) == IF mon.hasCancel THEN TRUE ELSE done

\* Stop: m.cancel().  stopMark keeps, for the first Stop made after Start,
\* the number of cycles begun by then.
Stop ==
    /\ Alive
    /\ ctxDone' = StopCancel(m, ctxDone)
    /\ stopMark' = IF ~stopMark.set /\ loop.pc # "unborn"
                   THEN [set |-> TRUE, n |-> loop.n] ELSE stopMark
    /\ UNCHANGED <<constructed, args, panicMsg, m, parentDone, messageChan, chanTag,
                   loop, now, localDay, fmtIn, fmtOut, provIn, provOut>>

WithCancelDetached(derived, done) == done

\* context.WithCancel(ctx): whether m.ctx is cancelled once the caller's ctx
\* is, derived telling whether m.ctx was made of it yet, done whether m.ctx
\* was cancelled before.
WithCancel(derived, done) == IF derived THEN TRUE ELSE done

\* The caller cancels the context it gave to NewVPSMonitor.
CancelParent ==
    /\ constructed = "none" \/ Alive
    /\ ~parentDone
    /\ parentDone' = TRUE
    /\ ctxDone' = WithCancel(constructed = "ok", ctxDone)
    /\ UNCHANGED <<constructed, args, panicMsg, m, messageChan, chanTag, loop,
                   stopMark, now, localDay, fmtIn, fmtOut, provIn, provOut>>

\* The caller's consumer takes the oldest message.
Receive ==
    /\ Alive
    /\ Len(messageChan) > 0
    /\ messageChan' = Tail(messageChan)
    /\ chanTag' = Tail(chanTag)
    /\ UNCHANGED <<constructed, args, panicMsg, m, parentDone, ctxDone, loop,
                   stopMark, now, localDay, fmtIn, fmtOut, provIn, provOut>>

(***************************************************************************)
(* checkPaymentDates                                                       *)
(***************************************************************************)
CycleProvidersSwapped(mon) ==
    (IF ~mon.OneProvider.nil /\ OneProviderIsConfigured(mon.OneProvider)
     THEN <<OneProviderName>> ELSE << >>)
    \o (IF ~mon.Vdsina.nil /\ VdsinaIsConfigured(mon.Vdsina)
        THEN <<VdsinaName>> ELSE << >>)

CycleProviders(mon) ==
    (IF ~mon.Vdsina.nil /\ VdsinaIsConfigured(mon.Vdsina)
     THEN <<VdsinaName>> ELSE << >>)
    \o (IF ~mon.OneProvider.nil /\ OneProviderIsConfigured(mon.OneProvider)
        THEN <<OneProviderName>> ELSE << >>)

\* The loop record when a cycle begins.
BeginCycle(l, mon) ==
    LET ps == CycleProviders(mon) IN
    [l EXCEPT !.pc = IF Len(ps) = 0 THEN "wait" ELSE "query",
              !.providers = ps, !.i = 1, !.q = "none", !.n = l.n + 1,
              !.log = << >>]

sendMessageEvict(mon, ch, text) ==
    IF ~mon.hasChan \/ ~mon.hasConv THEN ch
    ELSE IF Len(ch) < ChanCap THEN Append(ch, messageConverter(text))
    ELSE Append(Tail(ch), messageConverter(text))

\* The channel after sendMessage(text)
sendMessage(mon, ch, text) ==
    IF ~mon.hasChan \/ ~mon.hasConv THEN ch
    ELSE IF Len(ch) < ChanCap THEN Append(ch, messageConverter(text))
    ELSE ch

sendMessageConversionsIfRoom(mon, ch) ==
    IF ~mon.hasChan \/ ~mon.hasConv THEN 0
    ELSE IF Len(ch) < ChanCap THEN 1 ELSE 0

\* The number of calls of m.messageConverter one sendMessage makes: the
\* call stands before the select, after the two nil checks.
sendMessageConversions(mon, ch) ==
    IF ~mon.hasChan \/ ~mon.hasConv THEN 0 ELSE 1

\* The text checkPaymentDates makes of one provider's result.
Notification(name, res, nowUTC) ==
    IF res.err # "" THEN ErrorText(name, res.err)
    ELSE IF ~res.isNil THEN formatPaymentMessage(name, res.date, nowUTC)
    ELSE NoPaymentText(name)

\* Whether the branch taken calls sendMessage: the error branch does under
\* `if m.messageChan != nil`, the other two always.
Handed(mon, res) == res.err = "" \/ mon.hasChan

Outcome(res) == IF res.err # "" THEN "err" ELSE IF res.isNil THEN "none" ELSE "date"

NextIndexReturn(i, res, count) == IF res.err # "" THEN count + 1 ELSE i + 1

\* The index of the provider the range loop turns to after the one at i:
\* `continue` after an error, the end of the body otherwise.
NextIndex(i, res, count) == i + 1

(***************************************************************************)
(* runPaymentDateCheck, the goroutine of Start.  pc:     "unborn" (no Start *)
(* yet), "start" (spawned, nothing run), "query" (in checkPaymentDates,    *)
(* about to call the provider at index i), "inflight" (inside that call),  *)
(* "wait" (at the select), "exited" (returned), "panicked" (the goroutine  *)
(* panicked, which ends the process).  n counts the cycles begun, log      *)
(* lists what the current cycle did for each provider so far; q tells      *)
(* whether the context of a query was cancelled ("dead") or not ("live")   *)
(* when the query began; conv counts the calls of the converter.           *)
(***************************************************************************)
InCycle(l) == l.pc \in {"query", "inflight"}

AtSelectAnytime(l) == l.pc \in {"wait", "query", "inflight"}

\* The goroutine is blocked in the select of the for loop.
AtSelect(l) == l.pc = "wait"

BreakOnly(l) == [l EXCEPT !.tick = FALSE]

\* return in the ctx.Done case, then the deferred ticker.Stop()
Returned(l) == [l EXCEPT !.pc = "exited", !.tick = FALSE]

AfterTickerChecked(l, mon) ==
    IF ctxDone THEN [l EXCEPT !.pc = "exited", !.tick = FALSE]
    ELSE BeginCycle([l EXCEPT !.tick = FALSE], mon)

AfterTickerWait(l, mon) == [l EXCEPT !.pc = "wait", !.tick = FALSE]

\* The loop record after time.NewTicker and the initial m.checkPaymentDates()
\* call has been entered.
AfterTicker(l, mon) == BeginCycle([l EXCEPT !.tick = FALSE], mon)

\* time.NewTicker panics for a non-positive interval; the panic of a
\* goroutine ends the process.
LoopStart ==
    /\ Alive
    /\ loop.pc = "start"
    /\ IF m.checkInterval <= 0
       THEN /\ loop' = [loop EXCEPT !.pc = "panicked"]
            /\ panicMsg' = "non-positive interval for NewTicker"
       ELSE /\ loop' = AfterTicker(loop, m)
            /\ UNCHANGED panicMsg
    /\ UNCHANGED <<constructed, args, m, parentDone, ctxDone, messageChan, chanTag,
                   stopMark, now, localDay, fmtIn, fmtOut, provIn, provOut>>

\* context.WithTimeout(m.ctx, timeouts[i]) and the call of GetNextPaymentDate:
\* a request made with a cancelled context fails without reaching upstream.
QueryStart ==
    /\ Alive
    /\ loop.pc = "query"
    /\ loop' = [loop EXCEPT !.pc = "inflight",
                              !.q = IF ctxDone THEN "dead" ELSE "live"]
    /\ UNCHANGED <<constructed, args, panicMsg, m, parentDone, ctxDone, messageChan,
                   chanTag, stopMark, now, localDay, fmtIn, fmtOut, provIn, provOut>>

QueryResultsDetached(l, name) ==
    { GetNextPaymentDate(name, r, now, localDay) : r \in Responses(name, now) }

\* What the call in flight can return: the provider's reading of some
\* upstream answer (a deadline that expires is a fetch failure), or the
\* cancellation error once m.ctx is cancelled.
QueryResults(l, name) ==
    IF l.q = "dead" THEN {CanceledResult(name)}
    ELSE { GetNextPaymentDate(name, r, now, localDay) : r \in Responses(name, now) }
         \cup (IF ctxDone THEN {CanceledResult(name)} ELSE {})

\* The rest of the loop body for provider i: the notification, sendMessage,
\* and the move to the next provider or out of checkPaymentDates.
QueryReturn ==
    /\ Alive
    /\ loop.pc = "inflight"
    /\ LET l == loop
           name == l.providers[l.i]
       IN  \E res \in QueryResults(l, name) :
             LET text == Notification(name, res, now)
                 handed == Handed(m, res)
                 ch == IF handed THEN sendMessage(m, messageChan, text)
                       ELSE messageChan
                 j == NextIndex(l.i, res, Len(l.providers))
             IN  /\ messageChan' = ch
                 /\ chanTag' = IF Len(ch) > Len(messageChan)
                               THEN Append(chanTag, <<l.n, l.i>>)
                               ELSE chanTag
                 /\ loop' = [loop EXCEPT
                                !.log = Append(l.log,
                                    [provider |-> name, q |-> l.q,
                                     outcome |-> Outcome(res),
                                     handed |-> handed, text |-> text]),
                                !.conv = l.conv + (IF handed
                                    THEN sendMessageConversions(m, messageChan)
                                    ELSE 0),
                                !.i = j,
                                !.q = "none",
                                !.pc = IF j > Len(l.providers) THEN "wait"
                                          ELSE "query"]
    /\ UNCHANGED <<constructed, args, panicMsg, m, parentDone, ctxDone, stopMark,
                   now, localDay, fmtIn, fmtOut, provIn, provOut>>

\* The ticker fires; its channel holds one tick.
Tick ==
    /\ Alive
    /\ loop.pc \in {"query", "inflight", "wait"}
    /\ ~loop.tick
    /\ loop.n < MaxCycles
    /\ loop' = [loop EXCEPT !.tick = TRUE]
    /\ UNCHANGED <<constructed, args, panicMsg, m, parentDone, ctxDone, messageChan,
                   chanTag, stopMark, now, localDay, fmtIn, fmtOut, provIn, provOut>>

\* case <-ticker.C
TickCase ==
    /\ Alive
    /\ AtSelect(loop)
    /\ loop.tick
    /\ loop' = BeginCycle([loop EXCEPT !.tick = FALSE], m)
    /\ UNCHANGED <<constructed, args, panicMsg, m, parentDone, ctxDone, messageChan,
                   chanTag, stopMark, now, localDay, fmtIn, fmtOut, provIn, provOut>>

\* case <-m.ctx.Done(): return, and the deferred ticker.Stop()
DoneCase ==
    /\ Alive
    /\ AtSelect(loop)
    /\ ctxDone
    /\ loop' = Returned(loop)
    /\ UNCHANGED <<constructed, args, panicMsg, m, parentDone, ctxDone, messageChan,
                   chanTag, stopMark, now, localDay, fmtIn, fmtOut, provIn, provOut>>

Next ==
    \/ NewVPSMonitor
    \/ Start
    \/ Stop
    \/ CancelParent
    \/ Receive
    \/ LoopStart
    \/ QueryStart
    \/ QueryReturn
    \/ Tick
    \/ TickCase
    \/ DoneCase

Spec == Init /\ [][Next]_vars

(***************************************************************************)
(* formatPaymentMessage on its own: any provider name, any due date within *)
(* FmtSpan hours of the clock.                                             *)
(***************************************************************************)
FmtSpan == 200

InitFmt ==
    /\ constructed = "none"
    /\ args = NoArgs
    /\ panicMsg = ""
    /\ m = ZeroMonitor
    /\ parentDone = FALSE
    /\ ctxDone = FALSE
    /\ messageChan = << >>
    /\ chanTag = << >>
    /\ loop = IdleLoop
    /\ stopMark = [set |-> FALSE, n |-> 0]
    /\ now \in {100 * HoursPerDay, 100 * HoursPerDay + 7}
    /\ localDay = HoursPerDay
    /\ fmtIn = [providerName |-> "", paymentDate |-> 0, nowUTC |-> 0]
    /\ fmtOut = Text("", "", 0, 0, "")
    /\ provIn = NoCall
    /\ provOut = NoAnswer

FormatCall ==
    /\ fmtIn.providerName = ""
    /\ \E name \in {VdsinaName, OneProviderName}, off \in -FmtSpan..FmtSpan :
         /\ fmtIn' = [providerName |-> name, paymentDate |-> now + off, nowUTC |-> now]
         /\ fmtOut' = formatPaymentMessage(name, now + off, now)
    /\ UNCHANGED <<constructed, args, panicMsg, m, parentDone, ctxDone, messageChan,
                   chanTag, loop, stopMark, now, localDay, provIn, provOut>>

NextFmt == FormatCall

SpecFmt == InitFmt /\ [][NextFmt]_vars

FmtCalled == fmtIn.providerName # ""

(***************************************************************************)
(* GetNextPaymentDate of either provider on its own, followed by the text  *)
(* checkPaymentDates makes of the result.  A VDSina answer carries any     *)
(* forecast field; a OneProvider account holds up to MaxFill invoices of   *)
(* one kind followed by up to MaxTail invoices of any kind.                *)
(***************************************************************************)
ProvSpan == 3
MaxFill == 20
MaxTail == 2

VdsinaInputs(nowUTC) ==
    [ok : BOOLEAN,
     forecast : {NullField, EmptyField, BadField}
                \cup {DayField(Today(nowUTC) + d) : d \in -ProvSpan..ProvSpan}]

Fill(k, status, nowUTC) ==
    [j \in 1..k |-> Invoice(status, DayField(Today(nowUTC) + ProvSpan))]

TailInvoices(nowUTC) ==
    {Invoice(status, due) :
        status \in {"Unpaid", "Paid"},
        due \in {EmptyField, BadField, DayField(Today(nowUTC) + 1),
                 DayField(Today(nowUTC) + ProvSpan + 1)}}

Tails(nowUTC) == UNION {[1..n -> TailInvoices(nowUTC)] : n \in 0..MaxTail}

OneProviderInputs(nowUTC) ==
    {[ok |-> ok, invoices |-> Fill(k, status, nowUTC) \o t] :
        ok \in BOOLEAN, k \in 0..MaxFill, status \in {"Unpaid", "Paid"},
        t \in Tails(nowUTC)}

ProvInputs(name, nowUTC) ==
    IF name = VdsinaName THEN VdsinaInputs(nowUTC) ELSE OneProviderInputs(nowUTC)

InitProv ==
    /\ constructed = "none"
    /\ args = NoArgs
    /\ panicMsg = ""
    /\ m = ZeroMonitor
    /\ parentDone = FALSE
    /\ ctxDone = FALSE
    /\ messageChan = << >>
    /\ chanTag = << >>
    /\ loop = IdleLoop
    /\ stopMark = [set |-> FALSE, n |-> 0]
    /\ now \in {100 * HoursPerDay + 7}
    /\ localDay \in LocalDays
    /\ fmtIn = [providerName |-> "", paymentDate |-> 0, nowUTC |-> 0]
    /\ fmtOut = Text("", "", 0, 0, "")
    /\ provIn = NoCall
    /\ provOut = NoAnswer

ProviderCall ==
    /\ provIn.name = ""
    /\ \E name \in {VdsinaName, OneProviderName} :
         \E resp \in ProvInputs(name, now) :
           LET res == GetNextPaymentDate(name, resp, now, localDay) IN
           /\ provIn' = [name |-> name, resp |-> resp]
           /\ provOut' = [res |-> res, text |-> Notification(name, res, now)]
    /\ UNCHANGED <<constructed, args, panicMsg, m, parentDone, ctxDone, messageChan,
                   chanTag, loop, stopMark, now, localDay, fmtIn, fmtOut>>

NextProv == ProviderCall

SpecProv == InitProv /\ [][NextProv]_vars

(***************************************************************************)
(* Properties.                                                             *)
(***************************************************************************)
Tiers == {"CRITICAL", "WARNING", "ATTENTION", "INFO"}

\* The number of providers the current cycle has finished with.
Finished(l) == IF l.pc \in {"query", "inflight"} THEN l.i - 1 ELSE Len(l.providers)

\* C1: in every check cycle each configured provider is queried once and
\* yields one notification handed to delivery, whatever the other provider
\* did: an error yields the "Error checking payment date" text, a nil date
\* "no payment due", a date a classified message; the cycle goes on after an
\* error and ends with one entry per provider, none twice.
C1_OneNotificationPerProvider ==
    loop.n >= 1 /\ loop.pc # "panicked" =>
        /\ loop.providers = CycleProviders(m)
        /\ Len(loop.log) = Finished(loop)
        /\ \A k \in 1..Len(loop.log) :
             LET e == loop.log[k] IN
             /\ e.provider = loop.providers[k]
             /\ e.handed
             /\ e.text.provider = e.provider
             /\ e.outcome = "err" => e.text.kind = "Error" /\ e.text.err # ""
             /\ e.outcome = "none" => e.text = NoPaymentText(e.provider)
             /\ e.outcome = "date" => e.text.kind \in Tiers

\* A cycle over two providers is over; the first failed, the second did not.
C1_Witness ==
    /\ loop.pc = "wait"
    /\ Len(loop.log) = 2
    /\ loop.log[1].outcome = "err"
    /\ loop.log[2].outcome = "date"

\* A step in which checkPaymentDates handed a notification to sendMessage.
SendStep == Len(loop'.log) = Len(loop.log) + 1

SendEffect ==
    SendStep =>
        LET text == loop'.log[Len(loop'.log)].text IN
        /\ Len(messageChan) < ChanCap =>
             messageChan' = Append(messageChan, messageConverter(text))
        /\ Len(messageChan) >= ChanCap => messageChan' = messageChan
        /\ loop'.pc \in {"query", "wait"}

\* C2: sendMessage never blocks the check loop: the loop can always take
\* the step that sends; with room in the channel the converted message is
\* appended, with a full channel the contents stay as they are, and in both
\* cases the cycle moves on to the next provider or to its end.
C2_SendNeverBlocks ==
    /\ [](Len(messageChan) <= ChanCap)
    /\ [](Alive /\ loop.pc = "inflight" => ENABLED QueryReturn)
    /\ [][SendEffect]_vars

\* A cycle has ended with the channel full and its last message not in it.
C2_Witness ==
    /\ loop.pc = "wait"
    /\ Len(loop.log) = 2
    /\ Len(messageChan) = ChanCap
    /\ \A k \in 1..Len(messageChan) :
         messageChan[k] # messageConverter(loop.log[2].text)

\* C3: after Stop is called following Start, once the cycle that was in
\* flight at that moment (if any) is over, nothing more is enqueued: every
\* message in the channel comes from a cycle begun no later than the Stop.
C3_NoEnqueueAfterStop ==
    stopMark.set =>
        \A k \in 1..Len(chanTag) : chanTag[k][1] <= stopMark.n

CycleStep == loop'.n # loop.n

TickTaken == loop.tick /\ ~loop'.tick

ExitStep == loop.pc # "exited" /\ loop'.pc = "exited"

\* C4: with Start called once the cycles are serialized: a cycle begins
\* only when the goroutine is not inside one, the cycle count grows by one
\* at a time, and a timer tick or a cancellation that arrived during a
\* cycle is taken up only at the select, after the cycle has returned.
C4_CyclesSerialized ==
    [][/\ CycleStep => ~InCycle(loop) /\ loop'.n = loop.n + 1
       /\ TickTaken => loop.pc = "wait"
       /\ ExitStep => loop.pc = "wait"
       /\ InCycle(loop) /\ loop'.pc = "wait" =>
            Len(loop'.log) = Len(loop.providers)]_vars

\* A tick and the cancellation are both pending while a query of a later
\* cycle is in flight.
C4_Witness ==
    /\ loop.pc = "inflight"
    /\ loop.n >= 2
    /\ loop.tick
    /\ ctxDone

\* C5: for every due date earlier than now, also one less than 24 hours
\* back, formatPaymentMessage yields the CRITICAL template, and the count it
\* prints is minus daysUntil.
C5_PastDueIsCritical ==
    FmtCalled /\ fmtIn.paymentDate < fmtIn.nowUTC =>
        /\ fmtOut.kind = "CRITICAL"
        /\ fmtOut.count = -daysUntilOf(fmtIn.paymentDate, fmtIn.nowUTC)

\* d is the hour difference h divided by 24 and truncated toward zero.
IsTruncatedDays(d, h) ==
    /\ Abs(d) * HoursPerDay <= Abs(h)
    /\ Abs(h) < (Abs(d) + 1) * HoursPerDay
    /\ (h >= 0 => d >= 0)
    /\ (h <= 0 => d <= 0)

\* C6: with daysUntil the hour difference divided by 24 and truncated, the
\* tier is CRITICAL below 0, WARNING for 0, 1, 2, ATTENTION for 3, 4, 5 and
\* INFO from 6 on; the count printed is daysUntil, its absolute value in the
\* CRITICAL tier; the name and the date are those given.
C6_TierByDaysUntil ==
    FmtCalled =>
        \E d \in -FmtSpan..FmtSpan :
            /\ IsTruncatedDays(d, fmtIn.paymentDate - fmtIn.nowUTC)
            /\ fmtOut.kind = (IF d < 0 THEN "CRITICAL"
                              ELSE IF d \in {0, 1, 2} THEN "WARNING"
                              ELSE IF d \in {3, 4, 5} THEN "ATTENTION"
                              ELSE "INFO")
            /\ fmtOut.count = Abs(d)
            /\ fmtOut.provider = fmtIn.providerName
            /\ fmtOut.day = DateStr(fmtIn.paymentDate)
            /\ fmtOut.err = ""

\* The last hour of the third day: still WARNING, 2 days left.
C6_Witness ==
    /\ FmtCalled
    /\ fmtIn.paymentDate - fmtIn.nowUTC = 3 * HoursPerDay - 1
    /\ fmtOut.kind = "WARNING"
    /\ fmtOut.count = 2

HasCredentials(config) ==
    \/ config.VdsinaAPIKey # ""
    \/ config.OneProviderAPIKey # "" /\ config.OneProviderClientKey # ""

\* C7: NewVPSMonitor panics exactly when the channel is nil, the converter
\* is nil, or there is neither a VDSina key nor a complete OneProvider pair;
\* the panic leaves no monitor, no goroutine and an empty channel; every
\* other call returns a monitor with the channel, the converter and at
\* least one provider.
C7_ConstructionValidates ==
    constructed # "none" =>
        /\ constructed = "panic" <=>
             (args.chanNil \/ args.convNil \/ ~HasCredentials(args.config))
        /\ constructed = "panic" =>
             /\ panicMsg # ""
             /\ m = ZeroMonitor
             /\ loop = IdleLoop
             /\ messageChan = << >>
        /\ constructed = "ok" =>
             /\ m.hasChan /\ m.hasConv /\ m.hasCancel
             /\ CycleProviders(m) # << >>

\* A half OneProvider pair and no VDSina key: a panic, with both the
\* channel and the converter given.
C7_Witness ==
    /\ constructed = "panic"
    /\ ~args.chanNil /\ ~args.convNil
    /\ args.config.OneProviderAPIKey # ""
    /\ args.config.OneProviderClientKey = ""

\* C8: the loop runs one cycle at once, before it ever waits on the ticker;
\* each later cycle begins at the select by taking a tick; the loop leaves
\* only at the select, on a cancelled context, and that step runs no cycle.
C8_InitialThenTicks ==
    /\ [](loop.pc \in {"wait", "exited"} => loop.n >= 1)
    /\ [][/\ loop.pc = "start" /\ loop'.pc \notin {"start", "panicked"} =>
               loop'.n = 1 /\ InCycle(loop') /\ ~loop'.tick
          /\ CycleStep /\ loop.pc # "start" =>
               loop.pc = "wait" /\ loop.tick /\ ~loop'.tick
          /\ ExitStep => loop.pc = "wait" /\ ctxDone /\ ~CycleStep]_vars

\* The loop left after its second cycle, which a tick began.
C8_Witness == loop.pc = "exited" /\ loop.n = 2

\* C9: a cycle asks VDSina before OneProvider and produces their
\* notifications in that order; the channel holds the messages of a cycle in
\* that order, and those of an earlier cycle before those of a later one.
C9_RegistrationOrder ==
    constructed = "ok" =>
        /\ CycleProviders(m) \in
             {<<VdsinaName>>, <<OneProviderName>>, <<VdsinaName, OneProviderName>>}
        /\ \A k \in 1..Len(loop.log) :
             /\ loop.log[k].provider = CycleProviders(m)[k]
             /\ loop.log[k].text.provider = CycleProviders(m)[k]
        /\ Len(chanTag) = Len(messageChan)
        /\ \A j, k \in 1..Len(chanTag) :
             j < k =>
               \/ chanTag[j][1] < chanTag[k][1]
               \/ /\ chanTag[j][1] = chanTag[k][1]
                  /\ chanTag[j][2] < chanTag[k][2]
                  /\ messageChan[j].Text.provider = VdsinaName
                  /\ messageChan[k].Text.provider = OneProviderName

\* The channel holds both messages of the second cycle.
C9_Witness ==
    /\ Len(chanTag) = 2
    /\ chanTag[1] = <<2, 1>>
    /\ chanTag[2] = <<2, 2>>

(***************************************************************************)
(* Liveness.  Each provider call returns (its deadline bounds it), so the  *)
(* steps of a cycle are weakly fair; the select picks among its ready      *)
(* cases at random, so the ctx.Done case, ready whenever the loop is at    *)
(* the select with the context cancelled, is strongly fair.                *)
(***************************************************************************)
LiveSpec ==
    /\ Init
    /\ [][Next]_vars
    /\ WF_vars(QueryStart)
    /\ WF_vars(QueryReturn)
    /\ SF_vars(DoneCase)

Running == loop.pc \in {"query", "inflight", "wait"}

\* C10: once the monitor's context is cancelled (by Stop or through the
\* parent) while the loop runs, the loop eventually returns; a loop that has
\* returned stays so and begins no cycle.
C10_LoopExits ==
    /\ (ctxDone /\ Running) ~> (loop.pc = "exited")
    /\ [][loop.pc = "exited" => loop' = loop]_vars

\* The loop returned after a Stop that met it in its second cycle.
C10_Witness ==
    /\ loop.pc = "exited"
    /\ stopMark.set
    /\ stopMark.n = 2

\* The monitor as its operations see it: the struct, its context, its
\* goroutine and the channel.
MonitorState == <<constructed, m, ctxDone, parentDone, loop, messageChan>>

\* C11: Stop can be called in every state of a constructed monitor, before
\* Start, while the loop runs and after it returned, and always returns; a
\* cancelled context stays cancelled, and a Stop that meets a cancelled
\* context leaves the monitor as it is: Stop twice is Stop once.
C11_StopIdempotent ==
    /\ [](Alive => ENABLED Stop)
    /\ [](Alive => StopCancel(m, StopCancel(m, ctxDone)) = StopCancel(m, ctxDone))
    /\ [][/\ ctxDone => ctxDone'
          /\ ctxDone /\ Stop => MonitorState' = MonitorState
          /\ Stop => ctxDone' /\ parentDone' = parentDone /\ loop' = loop]_vars

\* Stop was called on a monitor that was never started.
C11_Witness ==
    /\ constructed = "ok"
    /\ loop.pc = "unborn"
    /\ ctxDone
    /\ ~parentDone

\* C12: a VDSina answer whose forecast is null or empty makes
\* GetNextPaymentDate return a date, no nil and no error, that lies before
\* now, and the notification made of it is the CRITICAL one.
C12_NullForecastIsCritical ==
    /\ provIn.name = VdsinaName
    /\ provIn.resp.ok
    /\ provIn.resp.forecast.tag \in {"null", "empty"}
    => /\ ~provOut.res.isNil
       /\ provOut.res.err = ""
       /\ provOut.res.date < now
       /\ provOut.text.kind = "CRITICAL"

\* The invoices of an answer that count as unpaid.
UnpaidOf(resp) == {k \in 1..Len(resp.invoices) : resp.invoices[k].Status = "Unpaid"}

\* C13: a OneProvider answer without any unpaid invoice makes
\* GetNextPaymentDate return nil and no error, and the notification is the
\* "no payment due" text of that provider.
C13_NoUnpaidNoPaymentDue ==
    /\ provIn.name = OneProviderName
    /\ provIn.resp.ok
    /\ UnpaidOf(provIn.resp) = {}
    => /\ provOut.res = NilResult
       /\ provOut.text = NoPaymentText(OneProviderName)

\* Upstream answered with an empty list of invoices.
C13_Witness ==
    /\ provIn.name = OneProviderName
    /\ provIn.resp.ok
    /\ provIn.resp.invoices = << >>
    /\ provOut.text.kind = "NoPayment"

\* C14: whatever the number of invoices of the account, when each unpaid
\* one carries a due date, GetNextPaymentDate returns the earliest of these
\* due dates, and nil when no invoice is unpaid.
C14_EarliestOfAllUnpaid ==
    /\ provIn.name = OneProviderName
    /\ provIn.resp.ok
    /\ \A k \in UnpaidOf(provIn.resp) : ParseOK(provIn.resp.invoices[k].DueDate)
    => IF UnpaidOf(provIn.resp) = {} THEN provOut.res = NilResult
       ELSE /\ ~provOut.res.isNil
            /\ provOut.res.err = ""
            /\ \E k \in UnpaidOf(provIn.resp) :
                 provOut.res.date = ParseDate(provIn.resp.invoices[k].DueDate)
            /\ \A k \in UnpaidOf(provIn.resp) :
                 provOut.res.date <= ParseDate(provIn.resp.invoices[k].DueDate)

\* C15: in a constructed monitor the VDSina slot is set exactly when the
\* VDSina key was given, the OneProvider slot exactly when both of its keys
\* were, and one of the two is set; the providers of a cycle are the set
\* slots that report IsConfigured, each set slot among them; no step after
\* the construction changes a slot.
C15_ProviderSlots ==
    /\ [](constructed = "ok" =>
            /\ ~m.Vdsina.nil <=> args.config.VdsinaAPIKey # ""
            /\ ~m.OneProvider.nil <=>
                  (args.config.OneProviderAPIKey # ""
                   /\ args.config.OneProviderClientKey # "")
            /\ ~m.Vdsina.nil \/ ~m.OneProvider.nil
            /\ ~m.Vdsina.nil => VdsinaIsConfigured(m.Vdsina)
            /\ ~m.OneProvider.nil => OneProviderIsConfigured(m.OneProvider)
            /\ loop.n >= 1 =>
                 /\ (\E k \in 1..Len(loop.providers) : loop.providers[k] = VdsinaName)
                      <=> ~m.Vdsina.nil
                 /\ (\E k \in 1..Len(loop.providers) : loop.providers[k] = OneProviderName)
                      <=> ~m.OneProvider.nil
                 /\ \A k \in 1..Len(loop.log) :
                      loop.log[k].provider \in {loop.providers[j] : j \in 1..Len(loop.providers)})
    /\ [][constructed = "ok" =>
            m'.Vdsina = m.Vdsina /\ m'.OneProvider = m.OneProvider]_vars

\* A cycle of a monitor built with the VDSina key and half of the
\* OneProvider pair asked VDSina only.
C15_Witness ==
    /\ constructed = "ok"
    /\ args.config.OneProviderAPIKey # ""
    /\ args.config.OneProviderClientKey = ""
    /\ loop.pc = "wait"
    /\ loop.providers = <<VdsinaName>>
    /\ Len(loop.log) = 1

CanceledErrs == {CanceledResult(VdsinaName).err, CanceledResult(OneProviderName).err}

\* C17 as stated: a query that began before the cancellation is not aborted
\* by it, it ends with the provider's own result; the loop leaves only at
\* the select.
C17_InFlightNotAborted ==
    \A k \in 1..Len(loop.log) :
        loop.log[k].q = "live" => loop.log[k].text.err \notin CanceledErrs

\* C17, amended: the loop takes notice of a cancellation only at its
\* select, after the cycle has visited every provider; the queries take
\* notice at once, through the context derived from m.ctx: a query in
\* flight ends with its own result or, only once m.ctx is cancelled, with
\* the cancellation error; a query begun after the cancellation ends with
\* the cancellation error; each of them yields its one notification.
C17_CancelReachesQueries ==
    /\ [](\A k \in 1..Len(loop.log) :
            LET e == loop.log[k] IN
            /\ e.handed
            /\ e.text.err \in CanceledErrs => ctxDone
            /\ e.q = "dead" =>
                 e.text = ErrorText(e.provider, CanceledResult(e.provider).err)
            /\ e.q = "live" /\ e.text.err \notin CanceledErrs =>
                 \E r \in Responses(e.provider, now) :
                    e.text = Notification(e.provider,
                                 GetNextPaymentDate(e.provider, r, now, localDay), now))
    /\ [](loop.pc = "inflight" /\ loop.q = "live" /\ ctxDone =>
            CanceledResult(loop.providers[loop.i]) \in
                QueryResults(loop, loop.providers[loop.i]))
    /\ [][ExitStep =>
            loop.pc = "wait" /\ ctxDone /\ Len(loop.log) = Len(loop.providers)]_vars

\* The loop returned after a cycle in which the cancellation met the first
\* query in flight and ended it, and the second query began cancelled.
C17_Witness ==
    /\ loop.pc = "exited"
    /\ Len(loop.log) = 2
    /\ loop.log[1].q = "live"
    /\ loop.log[1].text.err \in CanceledErrs
    /\ loop.log[2].q = "dead"

\* C18: the goroutine of the loop never ends abnormally: it does not
\* panic, and it has returned only with m.ctx cancelled.
C18_NoAbnormalEnd ==
    /\ loop.pc # "panicked"
    /\ loop.pc = "exited" => ctxDone

\* C19: every notification a cycle produces makes one call of the
\* converter, a dropped one as well; the step that makes the call is the
\* step of the enqueue attempt, which appends the converter's value or
\* leaves the channel as it is; no step of the loop removes a message from
\* the channel or changes one in it.
C19_ConvertOncePerNotification ==
    /\ [](loop.n >= 1 /\ loop.pc # "panicked" =>
            loop.conv = (loop.n - 1) * Len(loop.providers) + Len(loop.log))
    /\ [][/\ SendStep =>
               /\ loop'.conv = loop.conv + 1
               /\ \/ messageChan' = messageChan
                  \/ messageChan' =
                       Append(messageChan,
                              messageConverter(loop'.log[Len(loop'.log)].text))
          /\ ~SendStep => loop'.conv = loop.conv
          /\ loop' # loop =>
               /\ Len(messageChan') >= Len(messageChan)
               /\ SubSeq(messageChan', 1, Len(messageChan)) = messageChan]_vars

\* The third notification was converted and dropped: the channel still
\* holds the first two, and nothing was received.
C19_Witness ==
    /\ loop.conv = 3
    /\ loop.n = 2
    /\ Len(loop.log) = 1
    /\ Len(messageChan) = ChanCap
    /\ chanTag = <<<<1, 1>>, <<1, 2>>>>

\* Stop was called before Start and the parent context is not cancelled.
StoppedBeforeStart ==
    /\ ctxDone
    /\ ~parentDone
    /\ ~stopMark.set
    /\ loop.pc # "unborn"

\* C20: the first cycle does not depend on the context: the step of the
\* goroutine after the ticker is made enters cycle 1 over the configured
\* providers whether or not m.ctx is cancelled, and the loop is at the
\* select or has returned only after each configured provider was asked
\* once and yielded one handed notification; after a Stop made before
\* Start these are the error notifications of the cancelled requests.
C20_InitialCycleUnconditional ==
    /\ [][loop.pc = "start" /\ loop'.pc \notin {"start", "panicked"} =>
            /\ loop'.n = 1
            /\ loop'.providers = CycleProviders(m)
            /\ InCycle(loop')]_vars
    /\ [](loop.pc \in {"wait", "exited"} =>
            /\ loop.n >= 1
            /\ Len(loop.log) = Len(CycleProviders(m))
            /\ \A k \in 1..Len(loop.log) :
                 loop.log[k].provider = CycleProviders(m)[k] /\ loop.log[k].handed)
    /\ [](StoppedBeforeStart /\ loop.n = 1 =>
            \A k \in 1..Len(loop.log) :
               /\ loop.log[k].q = "dead"
               /\ loop.log[k].text =
                    ErrorText(loop.log[k].provider,
                              CanceledResult(loop.log[k].provider).err))

\* Started after Stop, the loop is at its first select with a notification
\* for each of two providers.
C20_Witness ==
    /\ StoppedBeforeStart
    /\ loop.pc = "wait"
    /\ loop.n = 1
    /\ Len(loop.log) = 2

\* C21: Stop cancels m.ctx and nothing above it: a step of Stop leaves the
\* caller's context as it was, and the caller's context gets cancelled only
\* by the caller, in a step that changes nothing of the loop; the other way
\* round, a monitor whose caller's context is cancelled has m.ctx cancelled,
\* from its construction on or from the step that cancelled the caller's.
C21_StopLeavesParent ==
    /\ [](constructed = "ok" /\ parentDone => ctxDone)
    /\ [][/\ Stop => parentDone' = parentDone /\ ctxDone'
          /\ parentDone => parentDone'
          /\ ~parentDone /\ parentDone' =>
               /\ loop' = loop /\ stopMark' = stopMark /\ m' = m
               /\ constructed = "ok" => ctxDone']_vars

\* The loop returned on a Stop made after Start, and the caller's context
\* is still not cancelled.
C21_Witness ==
    /\ loop.pc = "exited"
    /\ stopMark.set
    /\ ctxDone
    /\ ~parentDone

====
